---- MODULE Spec2Model ----
(***************************************************************************)
(* Model of the spaced-repetition scheduler of the Turkish learning app:   *)
(* js/games/flashcards.js (updateSRS, difficultyToQuality, sortByPriority, *)
(* FlashcardsGame) over js/storage.js (save, load, getSRSData,             *)
(* saveSRSData).                                                           *)
(*                                                                         *)
(* JavaScript numbers are IEEE-754 doubles.  easeFactor is not an integer, *)
(* so it is carried as an exact double: a sign and a magnitude written in  *)
(* units of 2^-60 as four limbs of 18 bits, least significant first.       *)
(* Every arithmetic operation of the source on easeFactor is the exact     *)
(* operation followed by rounding to 53 significant bits, ties to even.    *)
(* interval, repetitions and the timestamps are integers and stay TLA+     *)
(* integers as long as a behaviour holds a few grades.  A behaviour of     *)
(* hundreds of passing grades carries interval and nextReview as doubles   *)
(* of any size (UpdateSRSLong).                                            *)
(***************************************************************************)
EXTENDS Integers, Sequences, FiniteSets, TLC

(***************************************************************************)
(* IEEE-754 double arithmetic                                              *)
(***************************************************************************)
LimbBits == 18

UnitBits == 60

MantissaBits == 53

Pow2(n) == 2^n

LimbBase == Pow2(LimbBits)

RECURSIVE BitLen(_)
BitLen(n) == IF n = 0 THEN 0 ELSE 1 + BitLen(n \div 2)

MagZero == <<0, 0, 0, 0>>

\* Brings four limbs that hold any integers back into 0..LimbBase-1 by
\* propagating carries (or borrows) upward.
Carry(v) ==
    LET c1 == v[1] \div LimbBase
        w2 == v[2] + c1
        c2 == w2 \div LimbBase
        w3 == v[3] + c2
        c3 == w3 \div LimbBase
    IN  <<v[1] % LimbBase, w2 % LimbBase, w3 % LimbBase, v[4] + c3>>

MagAdd(a, b) == Carry(<<a[1] + b[1], a[2] + b[2], a[3] + b[3], a[4] + b[4]>>)

\* a - b for a >= b
MagSub(a, b) == Carry(<<a[1] - b[1], a[2] - b[2], a[3] - b[3], a[4] - b[4]>>)

MagMulInt(n, a) == Carry(<<n * a[1], n * a[2], n * a[3], n * a[4]>>)

MagLess(a, b) ==
    \/ a[4] < b[4]
    \/ a[4] = b[4] /\ a[3] < b[3]
    \/ a[4] = b[4] /\ a[3] = b[3] /\ a[2] < b[2]
    \/ a[4] = b[4] /\ a[3] = b[3] /\ a[2] = b[2] /\ a[1] < b[1]

\* Number of significant bits of a magnitude.
MagBitLen(a) ==
    IF a[4] # 0 THEN 3 * LimbBits + BitLen(a[4])
    ELSE IF a[3] # 0 THEN 2 * LimbBits + BitLen(a[3])
    ELSE IF a[2] # 0 THEN LimbBits + BitLen(a[2])
    ELSE BitLen(a[1])

\* a with its s lowest bits, all in the lowest limb, rounded away: r is
\* their value, pw is 2^s, and tieUp says that an exact half goes up.
RoundLimb1(a, pw, r, tieUp) ==
    Carry(<<a[1] - r + (IF 2 * r > pw \/ (2 * r = pw /\ tieUp) THEN pw ELSE 0),
            a[2], a[3], a[4]>>)

\* a with its lowest limb and the s - LimbBits lowest bits of the second
\* limb rounded away: r is the value of the latter, pw is 2^(s - LimbBits).
RoundLimb2(a, pw, r, tieUp) ==
    Carry(<<0,
            a[2] - r + (IF 2 * r > pw \/ (2 * r = pw /\ tieUp) THEN pw ELSE 0),
            a[3], a[4]>>)

\* Bit number s of a (bit 0 is the lowest), for s <= 2 * LimbBits.
MagBit(a, s) ==
    IF s < LimbBits THEN (a[1] \div Pow2(s)) % 2
    ELSE IF s < 2 * LimbBits THEN (a[2] \div Pow2(s - LimbBits)) % 2
    ELSE a[3] % 2

\* a with its s lowest bits rounded away, to nearest, ties to even.  sticky
\* says that the exact value lies strictly above a (bits beyond the unit).
RoundBits(a, sticky, s) ==
    IF s <= 0 THEN a
    ELSE IF s <= LimbBits
    THEN RoundLimb1(a, Pow2(s), a[1] % Pow2(s), sticky \/ MagBit(a, s) = 1)
    ELSE RoundLimb2(a, Pow2(s - LimbBits), a[2] % Pow2(s - LimbBits),
                    sticky \/ a[1] # 0 \/ MagBit(a, s) = 1)

\* Rounds an exact magnitude to 53 significant bits, ties to even.
Round53(a, sticky) == RoundBits(a, sticky, MagBitLen(a) - MantissaBits)

\* A double: sign and magnitude.
Dbl(neg, m) == [neg |-> neg /\ m # MagZero, m |-> m]

\* The limbs of a quotient, from the highest down: n is the part of the
\* dividend that remains for limb k and the limbs below it.
DivLimb1(n, den, q4, q3, q2) ==
    Round53(<<n \div den, q2, q3, q4>>, (n % den) # 0)

DivLimb2(n, den, q4, q3) == DivLimb1((n % den) * LimbBase, den, q4, q3, n \div den)

DivLimb3(n, den, q4) == DivLimb2((n % den) * LimbBase, den, q4, n \div den)

DivLimb4(n, den) == DivLimb3((n % den) * LimbBase, den, n \div den)

\* The double a decimal literal num/den denotes (the nearest double).
Dec(num, den) == Dbl(FALSE, DivLimb4(num * Pow2(UnitBits - 3 * LimbBits), den))

\* An integer as a double (exact for the integers of the model).
FromInt(n) ==
    Dbl(n < 0, <<0, 0, 0, (IF n < 0 THEN 0 - n ELSE n) * Pow2(UnitBits - 3 * LimbBits)>>)

FNeg(x) == Dbl(~x.neg, x.m)

\* The sign and the exact magnitude of x + y.
SumNeg(x, y) == IF x.neg = y.neg \/ ~MagLess(x.m, y.m) THEN x.neg ELSE y.neg

SumMag(x, y) ==
    IF x.neg = y.neg THEN MagAdd(x.m, y.m)
    ELSE IF MagLess(x.m, y.m) THEN MagSub(y.m, x.m)
    ELSE MagSub(x.m, y.m)

\* x + y
FAdd(x, y) == Dbl(SumNeg(x, y), Round53(SumMag(x, y), FALSE))

\* x - y
FSub(x, y) == FAdd(x, FNeg(y))

\* n * x for an integer n
FMulInt(n, x) ==
    Dbl((n < 0) # x.neg, Round53(MagMulInt(IF n < 0 THEN 0 - n ELSE n, x.m), FALSE))

\* x < y
FLess(x, y) ==
    IF x.neg /\ ~y.neg THEN TRUE
    ELSE IF ~x.neg /\ y.neg THEN FALSE
    ELSE IF x.neg THEN MagLess(y.m, x.m)
    ELSE MagLess(x.m, y.m)

\* x clamped from below at floor
FMax(x, floor) == IF FLess(x, floor) THEN floor ELSE x

MagHalf == <<0, 0, 0, Pow2(UnitBits - 3 * LimbBits - 1)>>

MagIntPart(a) == a[4] \div Pow2(UnitBits - 3 * LimbBits)

MagIsInt(a) == a[1] = 0 /\ a[2] = 0 /\ a[3] = 0 /\ a[4] % Pow2(UnitBits - 3 * LimbBits) = 0

\* The integer nearest to m + 1/2 from below, taken for the sign of x.
RoundUpward(neg, up) ==
    IF ~neg THEN MagIntPart(up)
    ELSE IF MagIsInt(up) THEN 1 - MagIntPart(up)
    ELSE 0 - MagIntPart(up)

\* Math.round: the nearest integer, a tie going toward +infinity.
MathRound(x) == RoundUpward(x.neg, MagAdd(x.m, MagHalf))

(***************************************************************************)
(* Doubles of any size                                                     *)
(*                                                                         *)
(* An interval that is multiplied by the ease factor pass after pass       *)
(* leaves the integers a TLA+ integer holds.  A number of any size is      *)
(* m * 2^e, where the natural number m is a sequence of limbs of 15 bits,  *)
(* least significant first and without a zero limb on top (0 is <<>>);     *)
(* m is odd unless the number is 0.  Next to the numbers there are         *)
(* Infinity, NaN and the null JSON.stringify writes for both.              *)
(***************************************************************************)
NatBits == 15

NatBase == Pow2(NatBits)

MaxExponent == 1024

Limb(a, i) == IF i <= Len(a) THEN a[i] ELSE 0

\* The number of limbs of a up to its highest limb that is not 0.
NatLen(a) ==
    IF \A i \in 1..Len(a) : a[i] = 0 THEN 0
    ELSE CHOOSE i \in 1..Len(a) : a[i] # 0 /\ \A j \in (i + 1)..Len(a) : a[j] = 0

NatTrim(a) == SubSeq(a, 1, NatLen(a))

\* The limbs of an integer of the model, which is below NatBase^3.
NatOf(n) == NatTrim(<<n % NatBase, (n \div NatBase) % NatBase, n \div (NatBase * NatBase)>>)

LimbSum(a, b, i) == Limb(a, i) + Limb(b, i)

\* The carry into limb i of a + b: a lower limb overflows and every limb
\* between passes the carry on.
CarryInto(a, b, i) ==
    IF \E j \in 1..(i - 1) :
           /\ LimbSum(a, b, j) >= NatBase
           /\ \A k \in (j + 1)..(i - 1) : LimbSum(a, b, k) = NatBase - 1
    THEN 1 ELSE 0

Max(a, b) == IF a < b THEN b ELSE a

NatAdd(a, b) ==
    NatTrim([i \in 1..(Max(Len(a), Len(b)) + 1) |->
                (LimbSum(a, b, i) + CarryInto(a, b, i)) % NatBase])

\* a * n for a limb n: the low halves of the limb products plus their high
\* halves one limb up.
NatMulLimb(a, n) ==
    NatAdd([i \in 1..Len(a) |-> (a[i] * n) % NatBase],
           [i \in 1..(Len(a) + 1) |-> IF i = 1 THEN 0 ELSE (a[i - 1] * n) \div NatBase])

\* a * NatBase^q
NatShiftLimbs(a, q) ==
    IF Len(a) = 0 THEN <<>> ELSE [i \in 1..(Len(a) + q) |-> IF i <= q THEN 0 ELSE a[i - q]]

\* a * limb k of b, at the place of that limb
NatMulPlace(a, b, k) == NatShiftLimbs(NatMulLimb(a, Limb(b, k)), k - 1)

\* a * b for b of at most four limbs, which hold the 53 bits of the
\* significand of a double.
NatMul(a, b) ==
    NatAdd(NatAdd(NatMulPlace(a, b, 1), NatMulPlace(a, b, 2)),
           NatAdd(NatMulPlace(a, b, 3), NatMulPlace(a, b, 4)))

\* a * 2^k
NatShiftLeft(a, k) == NatShiftLimbs(NatMulLimb(a, Pow2(k % NatBits)), k \div NatBits)

NatDropLimbs(a, q) == IF q >= Len(a) THEN <<>> ELSE SubSeq(a, q + 1, Len(a))

\* a \div p for a power of two p below NatBase
NatDivPow2(a, p) ==
    NatTrim([i \in 1..Len(a) |-> (a[i] \div p) + (Limb(a, i + 1) % p) * (NatBase \div p)])

\* a \div 2^k
NatShiftRight(a, k) == NatDivPow2(NatDropLimbs(a, k \div NatBits), Pow2(k % NatBits))

\* Number of significant bits of a limb.
LimbLen(n) == CHOOSE k \in 0..NatBits : n < Pow2(k) /\ (k = 0 \/ Pow2(k - 1) <= n)

\* Number of significant bits of a.
NatBitLen(a) == IF Len(a) = 0 THEN 0 ELSE NatBits * (Len(a) - 1) + LimbLen(a[Len(a)])

\* Bit k of a, bit 0 being the lowest.
NatBit(a, k) == (Limb(a, k \div NatBits + 1) \div Pow2(k % NatBits)) % 2

\* The k lowest bits of a are 0.
NatLowZero(a, k) == \A j \in 0..(k - 1) : NatBit(a, j) = 0

\* The number of 0 bits below the lowest 1 bit of a, a not being 0.
TrailingZeros(a) == CHOOSE k \in 0..(NatBitLen(a) - 1) : NatBit(a, k) = 1 /\ NatLowZero(a, k)

NatLess(a, b) ==
    \/ Len(a) < Len(b)
    \/ /\ Len(a) = Len(b)
       /\ \E i \in 1..Len(a) : a[i] < b[i] /\ \A j \in (i + 1)..Len(a) : a[j] = b[j]

Number(m, e) == [type |-> "number", m |-> m, e |-> e]

Infinity == [type |-> "Infinity", m |-> <<>>, e |-> 0]

NaN == [type |-> "NaN", m |-> <<>>, e |-> 0]

null == [type |-> "null", m |-> <<>>, e |-> 0]

Zero == Number(<<>>, 0)

\* m * 2^e with m made odd.
Canonical(m, e) ==
    IF Len(m) = 0 THEN Zero
    ELSE Number(NatShiftRight(m, TrailingZeros(m)), e + TrailingZeros(m))

\* An integer of the model as a number.
NumberOf(n) == Canonical(NatOf(n), 0)

\* The double m * 2^e for m of at most 53 bits: Infinity from 2^1024 on.
Overflowed(m, e) == IF NatBitLen(m) + e > MaxExponent THEN Infinity ELSE Canonical(m, e)

RoundedUp(q, up) == IF up THEN NatAdd(q, <<1>>) ELSE q

\* m * 2^e without its s lowest bits, rounded to nearest, ties to even.
RoundDropped(m, e, s) ==
    Overflowed(RoundedUp(NatShiftRight(m, s),
                         NatBit(m, s - 1) = 1 /\ (~NatLowZero(m, s - 1) \/ NatBit(m, s) = 1)),
               e + s)

\* The double nearest to m * 2^e.
RoundNumber(m, e) ==
    IF NatBitLen(m) <= MantissaBits THEN Overflowed(m, e)
    ELSE RoundDropped(m, e, NatBitLen(m) - MantissaBits)

\* A double of the ease-factor arithmetic as a number.
FromDbl(x) ==
    Canonical(NatAdd(NatAdd(NatOf(x.m[1]), NatShiftLeft(NatOf(x.m[2]), LimbBits)),
                     NatAdd(NatShiftLeft(NatOf(x.m[3]), 2 * LimbBits),
                            NatShiftLeft(NatOf(x.m[4]), 3 * LimbBits))),
              0 - UnitBits)

\* ToNumber: null counts as 0 in arithmetic.
ToNumber(x) == IF x.type = "null" THEN Zero ELSE x

IsFinite(x) == x.type = "number"

\* x * y for x, y >= 0
NumMul(x, y) ==
    IF x.type = "NaN" \/ y.type = "NaN" THEN NaN
    ELSE IF IsFinite(x) /\ IsFinite(y) THEN RoundNumber(NatMul(x.m, y.m), x.e + y.e)
    ELSE IF x = Zero \/ y = Zero THEN NaN
    ELSE Infinity

Min(a, b) == IF a < b THEN a ELSE b

\* The exponent of the power of two a finite x > 0 lies just below.
Top(x) == NatBitLen(x.m) + x.e

\* x.m * 2^x.e + y.m * 2^y.e in units of 2^e
AlignedSum(x, y, e) == NatAdd(NatShiftLeft(x.m, x.e - e), NatShiftLeft(y.m, y.e - e))

\* x + y for finite x >= y >= 0: a y below half the distance from x to the
\* next double is rounded away.
SumOf(x, y) ==
    IF y = Zero \/ Top(y) + MantissaBits < Top(x) THEN x
    ELSE RoundNumber(AlignedSum(x, y, Min(x.e, y.e)), Min(x.e, y.e))

\* x < y for finite x, y >= 0
LessOf(x, y) ==
    IF y = Zero THEN FALSE
    ELSE IF x = Zero THEN TRUE
    ELSE IF Top(x) # Top(y) THEN Top(x) < Top(y)
    ELSE NatLess(NatShiftLeft(x.m, x.e - Min(x.e, y.e)),
                 NatShiftLeft(y.m, y.e - Min(x.e, y.e)))

\* x < y for x, y >= 0; a comparison with NaN is false
NumLess(x, y) ==
    IF x.type = "NaN" \/ y.type = "NaN" THEN FALSE
    ELSE IF IsFinite(x) /\ IsFinite(y) THEN LessOf(x, y)
    ELSE IsFinite(x)

\* x + y for x, y >= 0
NumAdd(x, y) ==
    IF x.type = "NaN" \/ y.type = "NaN" THEN NaN
    ELSE IF IsFinite(x) /\ IsFinite(y)
    THEN IF LessOf(x, y) THEN SumOf(y, x) ELSE SumOf(x, y)
    ELSE Infinity

\* Math.round for x >= 0: floor(x + 1/2); a number without fraction bits,
\* Infinity and NaN are returned as they are.
MathRoundNumber(x) ==
    IF ~IsFinite(x) \/ x.e >= 0 THEN x
    ELSE Canonical(NatShiftRight(NatAdd(x.m, NatShiftLeft(<<1>>, 0 - x.e - 1)), 0 - x.e), 0)

\* What JSON.stringify and JSON.parse make of a number: Infinity and NaN
\* are written as null, a finite double is read back as it was.
JSONNumber(x) == IF IsFinite(x) THEN x ELSE null

(***************************************************************************)
(* Bounds of the model                                                     *)
(***************************************************************************)
\* Number of updateSRS executions in one behaviour.
MaxGrades == 5

\* Last reading of the clock.
MaxNow == 2

\* Number of updateSRS executions in one behaviour in which the store may
\* refuse the write.
MaxStoreCalls == 3

\* Number of updateSRS executions in one behaviour before a list is sorted.
MaxSortGrades == 4
MaxTabCalls == 3

\* Number of updateSRS executions in one behaviour of passing grades on one
\* item.
MaxLongGrades == 273

(***************************************************************************)
(* Constants of the source                                                 *)
(***************************************************************************)
\* Ids of the chunks of the generated content, in content order.
ContentChunks == <<"c1", "c2">>

\* Ids of the chunks of a content of three chunks.
LongContent == <<"c1", "c2", "c3">>

Items == {LongContent[i] : i \in 1..Len(LongContent)}

\* The lists of chunks sortByPriority is called with: the chunks of a
\* content have distinct ids, and come in any order.
ChunkLists ==
    {chunks \in UNION {[1..n -> Items] : n \in 0..Len(LongContent)} :
        \A i, j \in DOMAIN chunks : i # j => chunks[i] # chunks[j]}

\* The grade the items are given before a list is sorted: the order depends
\* on the grades only through nextReview, which passing grades set 1, 6 and
\* then 15 days after the time of the grade.
SortQuality == {4}

\* The grades the SM-2 algorithm is documented for (0-5).
Quality == 0..5

\* Integers updateSRS may be called with, inside and outside 0-5.
AnyQuality == (0 - 2)..7

\* The grades the tabs give: one below 3 and one from 3 on.
TabQuality == {1, 4}

\* The quality of the label "easy", the grade of an item that is known.
LongQuality == {5}

\* The labels FlashcardsGame.rate is called with: the three buttons of the
\* card, and a label that is none of them.
Labels == {"easy", "medium", "hard", "again"}

\* What localStorage.setItem does with a write: it stores the value, or it
\* throws an error with this name (the quota error save looks for, or
\* another one, as when the storage is not available).
WriteOutcomes == {"ok", "QuotaExceededError", "SecurityError"}

DEFAULT_EASE_FACTOR == Dec(25, 10)

MIN_EASE_FACTOR == Dec(13, 10)

SRS_DATA == "turkish_app_srs"

\* Timestamps are counted in minutes: Date.now() is read in whole minutes of
\* MS_PER_MINUTE milliseconds, so that one day, 24 * 60 * 60 * 1000 ms, is
\* DAY minutes.
\* STORAGE_KEYS.CONTENT_CACHE, STORAGE_KEYS.PROGRESS
CONTENT_CACHE == "turkish_app_content_"

PROGRESS == "turkish_app_progress"

\* SESSION_KEYS
APP_STATE == "turkish_app_session_state"

GAME_STATE == "turkish_app_game_state"

\* The games of the games screen, in the order of the screen, and the
\* removed games.
Games ==
    <<"flashcards", "quiz", "writing", "translation", "sentence-builder", "matching",
      "fill-in", "listening">>

REMOVED_GAMES == {"sov-construction", "true-false"}

OfferedGames == {Games[i] : i \in 1..Len(Games)}

\* gamesPlayed.length >= 10 makes a topic completed.
CompletedGames == 10

\* The ids of the topics that are selected.
Topics == {"t1", "t2"}

MS_PER_MINUTE == 60 * 1000

DAY == 24 * 60

\* The record an item without a stored record is graded from.
DefaultRecord ==
    [interval |-> 0, easeFactor |-> DEFAULT_EASE_FACTOR, nextReview |-> 0, repetitions |-> 0]

VARIABLES
    localStorage,   \* key -> serialized document, for the keys that are present
    now,            \* the last reading of Date.now()
    currentGame,    \* the FlashcardsGame of the game screen
    calls,          \* the number of updateSRS executions so far
    run,            \* item -> the qualities it was graded with since its most
                    \*         recent grade below 3 (all its grades if it has none)
    lapsed,         \* item -> whether it was ever graded below 3
    last,           \* the last call made: its arguments and its outcome
    sessionStorage, \* key -> document of the tab's sessionStorage
    state,          \* the state object of the App module
    tabs            \* tab -> the updateSRS execution the tab is in

vars == <<localStorage, now, currentGame, calls, run, lapsed, last,
          sessionStorage, state, tabs>>

(***************************************************************************)
(* storage.js                                                              *)
(***************************************************************************)
EmptyObject == [k \in {} |-> DefaultRecord]

\* A stored text is kept as what it is and what reading ids from its parsed
\* value gives: "json" is the text of a mapping from ids to records.
\* JSON.stringify of a mapping and JSON.parse of the text it gives.
JSONStringify(data) == [text |-> "json", value |-> data]

JSONParse(serialized) == serialized.value

\* A text that is not the text of a mapping: "unparsable" makes JSON.parse
\* throw, "null" parses to null, "number" to a number and "array" to an
\* array; no id reads as a record from any of them.
Document(text) == [text |-> text, value |-> EmptyObject]

CorruptDocuments == {Document(text) : text \in {"unparsable", "null", "number", "array"}}

\* save from the serialized text on: outcome is what localStorage.setItem
\* does with the write.
SaveSerialized(store, key, serialized, outcome) ==
    IF outcome = "ok"
    THEN [store |-> [k \in DOMAIN store \cup {key} |->
                        IF k = key THEN serialized ELSE store[k]],
          returned |-> TRUE, thrown |-> "none"]
    ELSE IF outcome = "QuotaExceededError"
    THEN [store |-> store, returned |-> FALSE, thrown |-> "STORAGE_FULL"]
    ELSE [store |-> store, returned |-> FALSE, thrown |-> "none"]

\* save(key, data)
save(store, key, data, outcome) ==
    SaveSerialized(store, key, JSONStringify(data), outcome)

HasItem(store, key) == key \in DOMAIN store

\* load(key) returns null: the key is missing, JSON.parse threw and the
\* error was caught, or the text is the text of null.
LoadsNull(store, key) ==
    \/ ~HasItem(store, key)
    \/ store[key].text \in {"unparsable", "null"}

load(store, key) == JSONParse(store[key])

\* load(SRS_DATA) || {}, read by id.
getSRSData(store) == IF LoadsNull(store, SRS_DATA) THEN EmptyObject ELSE load(store, SRS_DATA)

\* What load(SRS_DATA) || {} is: an object, or the number or the array a
\* corrupt text parses to.
SRSDataType(store) ==
    IF LoadsNull(store, SRS_DATA) \/ store[SRS_DATA].text = "json" THEN "object"
    ELSE store[SRS_DATA].text

saveSRSData(store, srsData, outcome) == save(store, SRS_DATA, srsData, outcome)

\* localStorage.removeItem(key) / sessionStorage.removeItem(key)
removeItem(store, key) == [k \in DOMAIN store \ {key} |-> store[k]]

\* remove(key)
remove(store, key) == removeItem(store, key)

\* key.startsWith(prefix)
startsWith(key, prefix) ==
    /\ Len(key) >= Len(prefix)
    /\ SubSeq(key, 1, Len(prefix)) = prefix

\* hasCache(topicId), setCache(topicId, content), clearCache(topicId)
hasCache(store, topicId) == HasItem(store, CONTENT_CACHE \o topicId)

setCache(store, topicId, content, outcome) ==
    save(store, CONTENT_CACHE \o topicId, content, outcome)

clearCache(store, topicId) == remove(store, CONTENT_CACHE \o topicId)

\* clearAllCache() removing every key of the application.
clearAllCache_AppKeys(store) ==
    [k \in {key \in DOMAIN store : ~startsWith(key, "turkish_app_")} |-> store[k]]

\* clearAllCache(): the keys that start with CONTENT_CACHE are removed.
clearAllCache(store) ==
    [k \in {key \in DOMAIN store : ~startsWith(key, CONTENT_CACHE)} |-> store[k]]

\* getProgress(): {...defaults, ...saved}; of the progress document the
\* games played per topic are kept.
NoProgress == [topicsCompleted |-> [k \in {} |-> [gamesPlayed |-> <<>>]]]

getProgress(store) ==
    IF LoadsNull(store, PROGRESS) THEN NoProgress ELSE load(store, PROGRESS)

saveProgress(store, progress, outcome) == save(store, PROGRESS, progress, outcome)

\* saveSessionState(state), loadSessionState()
saveSessionState(session, st) == SaveSerialized(session, APP_STATE, JSONStringify(st), "ok").store

\* clearSessionState()
clearSessionState(session) == removeItem(removeItem(session, APP_STATE), GAME_STATE)

(***************************************************************************)
(* flashcards.js: the SM-2 update                                          *)
(***************************************************************************)
\* srsData[chunkId] || { interval: 0, easeFactor: 2.5, nextReview: 0, repetitions: 0 }
RecordOrDefault(srsData, chunkId) ==
    IF chunkId \in DOMAIN srsData THEN srsData[chunkId] ELSE DefaultRecord

\* getSRSForChunk reading srsData.chunkId, a key no item is stored under.
getSRSForChunk_LiteralKey(store, chunkId) == RecordOrDefault(getSRSData(store), "chunkId")

getSRSForChunk(store, chunkId) == RecordOrDefault(getSRSData(store), chunkId)

\* EaseDeltaFor without the quadratic term.
EaseDeltaFor_Linear(d) == FSub(Dec(1, 10), FMulInt(d, Dec(8, 100)))

\* 0.1 - d * (0.08 + d * 0.02)
EaseDeltaFor(d) ==
    FSub(Dec(1, 10), FMulInt(d, FAdd(Dec(8, 100), FMulInt(d, Dec(2, 100)))))

\* 0.1 - (5 - quality) * (0.08 + (5 - quality) * 0.02)
EaseDelta(quality) == EaseDeltaFor(5 - quality)

\* NextInterval where a failed grade keeps the interval.
NextInterval_KeepOnFail(current, quality) ==
    IF quality >= 3
    THEN IF current.repetitions = 0 THEN 1
         ELSE IF current.repetitions = 1 THEN 6
         ELSE MathRound(FMulInt(current.interval, current.easeFactor))
    ELSE current.interval

\* NextInterval where the fixed interval 6 comes one pass late.
NextInterval_SixOnThird(current, quality) ==
    IF quality >= 3
    THEN IF current.repetitions = 0 THEN 1
         ELSE IF current.repetitions = 2 THEN 6
         ELSE MathRound(FMulInt(current.interval, current.easeFactor))
    ELSE 1

\* interval after the grade
NextInterval(current, quality) ==
    IF quality >= 3
    THEN IF current.repetitions = 0 THEN 1
         ELSE IF current.repetitions = 1 THEN 6
         ELSE MathRound(FMulInt(current.interval, current.easeFactor))
    ELSE 1

\* NextRepetitions where a pass does not count.
NextRepetitions_NoIncrement(current, quality) ==
    IF quality >= 3 THEN current.repetitions ELSE 0

\* NextRepetitions where a failed grade does not reset the count.
NextRepetitions_NoReset(current, quality) ==
    IF quality >= 3 THEN current.repetitions + 1 ELSE current.repetitions

\* repetitions after the grade
NextRepetitions(current, quality) ==
    IF quality >= 3 THEN current.repetitions + 1 ELSE 0

\* NextEaseFactor without the floor.
NextEaseFactor_NoFloor(current, quality) ==
    FAdd(current.easeFactor, EaseDelta(quality))

\* easeFactor after the grade
NextEaseFactor(current, quality) ==
    FMax(FAdd(current.easeFactor, EaseDelta(quality)), MIN_EASE_FACTOR)

\* { interval, easeFactor, nextReview, repetitions } with
\* nextReview = Date.now() + interval * 24 * 60 * 60 * 1000
UpdatedRecord(interval, easeFactor, t, repetitions) ==
    [interval    |-> interval,
     easeFactor  |-> easeFactor,
     nextReview  |-> t + interval * DAY,
     repetitions |-> repetitions]

\* Updated where the ease factor is updated before the interval is computed.
Updated_EaseFirst(current, quality, t) ==
    UpdatedRecord(NextInterval([current EXCEPT !.easeFactor = NextEaseFactor(current, quality)],
                               quality),
                  NextEaseFactor(current, quality), t, NextRepetitions(current, quality))

\* The record updateSRS builds from the current one, graded quality at time t.
Updated(current, quality, t) ==
    UpdatedRecord(NextInterval(current, quality), NextEaseFactor(current, quality),
                  t, NextRepetitions(current, quality))

\* srsData[chunkId] = updated
Assign(srsData, chunkId, updated) ==
    [k \in DOMAIN srsData \cup {chunkId} |-> IF k = chunkId THEN updated ELSE srsData[k]]

\* What a call of updateSRS leaves: the store, what it threw, the record it
\* returns if it did not throw, and the record it started from.
Outcome(saved, updated, current, stored) ==
    [store |-> saved.store, thrown |-> saved.thrown, value |-> updated,
     current |-> current, stored |-> stored]

\* updateSRS from the loaded mapping on: the current record is graded and
\* the mapping is saved with the updated record.
\* srsData[chunkId] = updated; saveSRSData(srsData): the module is strict
\* code, so the assignment throws a TypeError when srsData is a number; a
\* property set on an array is left out by JSON.stringify, which writes the
\* text of the array again.
StoreUpdated(store, type, srsData, chunkId, updated, outcome) ==
    IF type = "number"
    THEN [store |-> store, returned |-> FALSE, thrown |-> "TypeError"]
    ELSE IF type = "array"
    THEN SaveSerialized(store, SRS_DATA, Document("array"), outcome)
    ELSE saveSRSData(store, Assign(srsData, chunkId, updated), outcome)

UpdateLoaded(store, srsData, chunkId, current, updated, outcome) ==
    Outcome(StoreUpdated(store, SRSDataType(store), srsData, chunkId, updated, outcome),
            updated, current, chunkId \in DOMAIN srsData)

UpdateFrom(store, srsData, chunkId, current, quality, t, outcome) ==
    UpdateLoaded(store, srsData, chunkId, current, Updated(current, quality, t), outcome)

UpdateIn(store, srsData, chunkId, quality, t, outcome) ==
    UpdateFrom(store, srsData, chunkId, RecordOrDefault(srsData, chunkId), quality, t, outcome)

\* updateSRS refusing a quality outside 0-5.
updateSRS_RangeChecked(store, chunkId, quality, t, outcome) ==
    IF quality \in 0..5
    THEN UpdateIn(store, getSRSData(store), chunkId, quality, t, outcome)
    ELSE Outcome([store |-> store, thrown |-> "RangeError"], DefaultRecord,
                 RecordOrDefault(getSRSData(store), chunkId),
                 chunkId \in DOMAIN getSRSData(store))

\* updateSRS(chunkId, quality) run on a store at time t.
updateSRS(store, chunkId, quality, t, outcome) ==
    UpdateIn(store, getSRSData(store), chunkId, quality, t, outcome)

\* The record an item without a stored record is graded from, its interval
\* and nextReview being doubles of any size.
DefaultRecordLong ==
    [interval |-> Zero, easeFactor |-> DEFAULT_EASE_FACTOR, nextReview |-> Zero,
     repetitions |-> 0]

\* interval after the grade: Math.round(current.interval * current.easeFactor)
\* on doubles, a stored null counting as 0.
NextIntervalLong(current, quality) ==
    IF quality >= 3
    THEN IF current.repetitions = 0 THEN NumberOf(1)
         ELSE IF current.repetitions = 1 THEN NumberOf(6)
         ELSE MathRoundNumber(NumMul(ToNumber(current.interval),
                                     FromDbl(current.easeFactor)))
    ELSE NumberOf(1)

\* Date.now() + interval * 24 * 60 * 60 * 1000, the clock reading t in
\* minutes; the products are taken from left to right.
NextReviewLong(interval, t) ==
    NumAdd(NumberOf(t * MS_PER_MINUTE),
           NumMul(NumMul(NumMul(NumMul(interval, NumberOf(24)), NumberOf(60)),
                         NumberOf(60)),
                  NumberOf(1000)))

\* const updated = { interval, easeFactor, nextReview, repetitions }
UpdatedRecordLong(interval, easeFactor, t, repetitions) ==
    [interval    |-> interval,
     easeFactor  |-> easeFactor,
     nextReview  |-> NextReviewLong(interval, t),
     repetitions |-> repetitions]

\* The record as JSON.stringify writes it and JSON.parse reads it back.
JSONRecord(record) ==
    [record EXCEPT !.interval = JSONNumber(@), !.nextReview = JSONNumber(@)]

\* srsData[chunkId] = updated; saveSRSData(srsData); return updated: the
\* caller gets the record as computed, the store the record as serialized.
UpdateLoadedLong(store, srsData, chunkId, current, updated, outcome) ==
    Outcome(StoreUpdated(store, SRSDataType(store), srsData, chunkId, JSONRecord(updated),
                         outcome),
            updated, current, chunkId \in DOMAIN srsData)

\* difficultyToQuality where an unknown label counts as the hardest one.
difficultyToQuality_DefaultHard(difficulty) ==
    CASE difficulty = "easy" -> 5
      [] difficulty = "medium" -> 3
      [] difficulty = "hard" -> 1
      [] OTHER -> 1

difficultyToQuality(difficulty) ==
    CASE difficulty = "easy" -> 5
      [] difficulty = "medium" -> 3
      [] difficulty = "hard" -> 1
      [] OTHER -> 3

(***************************************************************************)
(* flashcards.js: sortByPriority                                           *)
(***************************************************************************)
NextReviewOf(srsData, id) == IF id \in DOMAIN srsData THEN srsData[id].nextReview ELSE 0

\* Compare putting the new items last.
Compare_NewLast(srsData, a, b) ==
    LET nrA == NextReviewOf(srsData, a)
        nrB == NextReviewOf(srsData, b)
    IN  IF nrA = 0 /\ nrB # 0 THEN 1
        ELSE IF nrB = 0 /\ nrA # 0 THEN 0 - 1
        ELSE nrA - nrB

\* Compare putting the later nextReview first.
Compare_Descending(srsData, a, b) ==
    LET nrA == NextReviewOf(srsData, a)
        nrB == NextReviewOf(srsData, b)
    IN  IF nrA = 0 /\ nrB # 0 THEN 0 - 1
        ELSE IF nrB = 0 /\ nrA # 0 THEN 1
        ELSE nrB - nrA

\* Compare putting a new item first without looking at the other item.
Compare_OneSided(srsData, a, b) ==
    LET nrA == NextReviewOf(srsData, a)
        nrB == NextReviewOf(srsData, b)
    IN  IF nrA = 0 THEN 0 - 1
        ELSE IF nrB = 0 THEN 1
        ELSE nrA - nrB

\* The comparator handed to Array.prototype.sort.
Compare(srsData, a, b) ==
    LET nrA == NextReviewOf(srsData, a)
        nrB == NextReviewOf(srsData, b)
    IN  IF nrA = 0 /\ nrB # 0 THEN 0 - 1
        ELSE IF nrB = 0 /\ nrA # 0 THEN 1
        ELSE nrA - nrB

\* Array.prototype.sort is stable: x, which comes after the elements of
\* sorted in the input, goes behind every element it does not precede.
RECURSIVE Insert(_, _, _)
Insert(srsData, sorted, x) ==
    IF sorted = <<>> THEN <<x>>
    ELSE IF Compare(srsData, sorted[Len(sorted)], x) > 0
         THEN Append(Insert(srsData, SubSeq(sorted, 1, Len(sorted) - 1), x), sorted[Len(sorted)])
         ELSE Append(sorted, x)

RECURSIVE StableSort(_, _)
StableSort(srsData, chunks) ==
    IF chunks = <<>> THEN <<>>
    ELSE Insert(srsData, StableSort(srsData, SubSeq(chunks, 1, Len(chunks) - 1)), chunks[Len(chunks)])

\* The elements of a list, last first.
Reverse(chunks) == [i \in 1..Len(chunks) |-> chunks[Len(chunks) + 1 - i]]

\* sortByPriority sorting the copy after reversing it.
sortByPriority_Reversed(store, chunks) == StableSort(getSRSData(store), Reverse(chunks))

sortByPriority(store, chunks) == StableSort(getSRSData(store), chunks)

\* sortByPriority sorting chunks itself, not a copy of it.
CallSortByPriority_InPlace(store, chunks) ==
    [store |-> store, chunks |-> sortByPriority(store, chunks),
     value |-> sortByPriority(store, chunks)]

\* sortByPriority(chunks) as a call: the store is read, [...chunks] is
\* sorted and returned, and chunks is left as it was.
CallSortByPriority(store, chunks) ==
    [store |-> store, chunks |-> chunks, value |-> sortByPriority(store, chunks)]

(***************************************************************************)
(* State                                                                   *)
(***************************************************************************)
NoGame ==
    [exists |-> FALSE, cards |-> <<>>, currentIndex |-> 0, isFlipped |-> FALSE, results |-> <<>>]

NoCall ==
    [op |-> "none", graded |-> FALSE, chunkId |-> "none", difficulty |-> "none",
     quality |-> 0, outcome |-> "ok", stored |-> FALSE, current |-> DefaultRecord,
     returned |-> FALSE, value |-> DefaultRecord,
     input |-> <<>>, chunks |-> <<>>, cards |-> <<>>]

\* A storage area without keys.
EmptyStorage == [k \in {} |-> JSONStringify(EmptyObject)]

\* export const state = {currentScreen: 'home', selectedTopic: null,
\* currentGame: null, ...}
InitialState == [currentScreen |-> "home", selectedTopic |-> "null", currentGame |-> "null"]

\* The browser tabs that share localStorage.
Tabs == {"tab1", "tab2"}

\* A tab that is not inside updateSRS; missed holds the items other tabs
\* saved since this tab loaded the mapping.
IdleTab ==
    [pc |-> "idle", chunkId |-> "none", quality |-> 0, srsData |-> EmptyObject,
     current |-> DefaultRecord, updated |-> DefaultRecord, missed |-> {}]

\* The history variables after updateSRS(chunkId, quality).
Graded(chunkId, quality) ==
    /\ calls' = calls + 1
    /\ run' = [run EXCEPT ![chunkId] = IF quality >= 3 THEN Append(@, quality) ELSE <<>>]
    /\ lapsed' = [lapsed EXCEPT ![chunkId] = @ \/ quality < 3]

\* The readings Date.now() can give after the reading now.
ClockReadings == {t \in now..(now + 1) : t <= MaxNow}

Init ==
    /\ localStorage = [k \in {} |-> JSONStringify(EmptyObject)]
    /\ now = 1
    /\ currentGame = NoGame
    /\ calls = 0
    /\ run = [id \in Items |-> <<>>]
    /\ lapsed = [id \in Items |-> FALSE]
    /\ last = NoCall
    /\ sessionStorage = EmptyStorage
    /\ state = InitialState
    /\ tabs = [tab \in Tabs |-> IdleTab]

(***************************************************************************)
(* Operations                                                              *)
(***************************************************************************)
\* The store and the record of the call after updateSRS gave r, the write
\* having had this outcome.
Returns(op, difficulty, chunkId, quality, outcome, r) ==
    /\ localStorage' = r.store
    /\ last' = [NoCall EXCEPT !.op = op, !.graded = TRUE, !.chunkId = chunkId,
                              !.difficulty = difficulty, !.quality = quality,
                              !.outcome = outcome,
                              !.stored = r.stored, !.current = r.current,
                              !.returned = (r.thrown = "none"), !.value = r.value]

\* A call of updateSRS(chunkId, quality) made at time t.
UpdateSRS(chunkId, quality, t) ==
    /\ calls < MaxGrades
    /\ Returns("updateSRS", "none", chunkId, quality, "ok",
               updateSRS(localStorage, chunkId, quality, t, "ok"))
    /\ now' = t
    /\ Graded(chunkId, quality)
    /\ UNCHANGED <<currentGame, sessionStorage, state, tabs>>

\* A call of updateSRS(chunkId, quality) made at time t, whose write to
\* localStorage has this outcome.
UpdateSRSWrite(chunkId, quality, t, outcome) ==
    /\ calls < MaxStoreCalls
    /\ Returns("updateSRS", "none", chunkId, quality, outcome,
               updateSRS(localStorage, chunkId, quality, t, outcome))
    /\ now' = t
    /\ Graded(chunkId, quality)
    /\ UNCHANGED <<currentGame, sessionStorage, state, tabs>>

\* A call of updateSRS(chunkId, quality) made at time t in a behaviour of
\* many grades, statement by statement: current, interval, updated, and
\* the write of the mapping.
UpdateSRSLong(chunkId, quality, t) ==
    /\ calls < MaxLongGrades
    /\ \E srsData \in {getSRSData(localStorage)} :
       \E current \in {IF chunkId \in DOMAIN srsData THEN srsData[chunkId]
                        ELSE DefaultRecordLong} :
       \E interval \in {NextIntervalLong(current, quality)} :
       \E updated \in {UpdatedRecordLong(interval, NextEaseFactor(current, quality), t,
                                          NextRepetitions(current, quality))} :
            Returns("updateSRS", "none", chunkId, quality, "ok",
                    UpdateLoadedLong(localStorage, srsData, chunkId, current, updated, "ok"))
    /\ now' = t
    /\ Graded(chunkId, quality)
    /\ UNCHANGED <<currentGame, sessionStorage, state, tabs>>

\* getSRSForChunk(chunkId) as a call: it reads the store and writes nothing,
\* and load catches what reading may throw.
CallGetSRSForChunk_PersistDefault(store, chunkId) ==
    [store  |-> saveSRSData(store, Assign(getSRSData(store), chunkId,
                                          getSRSForChunk(store, chunkId)), "ok").store,
     thrown |-> "none",
     value  |-> getSRSForChunk(store, chunkId)]

CallGetSRSForChunk(store, chunkId) ==
    [store |-> store, thrown |-> "none", value |-> getSRSForChunk(store, chunkId)]

\* The store and the record of the call after getSRSForChunk gave r.
Reads(chunkId, r) ==
    /\ localStorage' = r.store
    /\ last' = [NoCall EXCEPT !.op = "getSRSForChunk", !.chunkId = chunkId,
                              !.returned = (r.thrown = "none"), !.value = r.value]

\* A call of getSRSForChunk(chunkId).
GetSRSForChunk(chunkId) ==
    /\ Reads(chunkId, CallGetSRSForChunk(localStorage, chunkId))
    /\ UNCHANGED <<now, currentGame, calls, run, lapsed, sessionStorage, state, tabs>>

\* The record of the call after sortByPriority gave r.
Sorts(chunks, r) ==
    /\ localStorage' = r.store
    /\ last' = [NoCall EXCEPT !.op = "sortByPriority", !.input = chunks,
                              !.chunks = r.chunks, !.cards = r.value]

\* A call of sortByPriority(chunks).
SortByPriority(chunks) ==
    /\ Sorts(chunks, CallSortByPriority(localStorage, chunks))
    /\ UNCHANGED <<now, currentGame, calls, run, lapsed, sessionStorage, state, tabs>>

\* A call of updateSRS(chunkId, quality) made at time t, before a list is
\* sorted.
GradeBeforeSort(chunkId, quality, t) ==
    /\ calls < MaxSortGrades
    /\ UpdateSRS(chunkId, quality, t)

\* new FlashcardsGame(content)
NewGame ==
    /\ currentGame' = [exists |-> TRUE,
                       cards |-> sortByPriority(localStorage, ContentChunks),
                       currentIndex |-> 0, isFlipped |-> FALSE, results |-> <<>>]
    /\ last' = [NoCall EXCEPT !.op = "new"]
    /\ UNCHANGED <<localStorage, now, calls, run, lapsed, sessionStorage, state, tabs>>

\* FlashcardsGame.flip()
Flip ==
    /\ currentGame.exists
    /\ currentGame' = [currentGame EXCEPT !.isFlipped = ~@]
    /\ last' = [NoCall EXCEPT !.op = "flip"]
    /\ UNCHANGED <<localStorage, now, calls, run, lapsed, sessionStorage, state, tabs>>

\* getCurrentCard(): cards[currentIndex] || null
HasCurrentCard(game) == game.currentIndex < Len(game.cards)

getCurrentCard(game) == game.cards[game.currentIndex + 1]

\* isComplete(): currentIndex >= cards.length
isComplete(game) == game.currentIndex >= Len(game.cards)

\* results.filter(r => r.difficulty === difficulty).length
CountDifficulty(results, difficulty) ==
    Cardinality({i \in 1..Len(results) : results[i].difficulty = difficulty})

\* Math.round((n / total) * 100), and 0 without results
Percentage(n, total) ==
    IF total > 0 THEN MathRound(FMulInt(100, Dec(n, total))) ELSE 0

\* getResults() from the counts on; timeSpent, which no other field
\* depends on, is left out.
Results(easy, medium, hard, total) ==
    [correct |-> easy + medium,
     total |-> total,
     percentage |-> Percentage(easy, total),
     chunksLearned |-> easy + medium,
     details |-> [easy |-> easy, medium |-> medium, hard |-> hard]]

\* getResults()
getResults(game) ==
    Results(CountDifficulty(game.results, "easy"), CountDifficulty(game.results, "medium"),
            CountDifficulty(game.results, "hard"), Len(game.results))

\* rate without the call of nextCard().
RateCard_NoAdvance(card, difficulty, quality, outcome, r) ==
    /\ Returns("rate", difficulty, card, quality, outcome, r)
    /\ currentGame' =
            IF r.thrown = "none"
            THEN [currentGame EXCEPT
                    !.results = Append(@, [chunkId |-> card, difficulty |-> difficulty,
                                           quality |-> quality,
                                           newInterval |-> r.value.interval])]
            ELSE currentGame
    /\ Graded(card, quality)

\* rate from updateSRS on: the result is pushed and nextCard() is called,
\* unless updateSRS threw, which ends rate there.
RateCard(card, difficulty, quality, outcome, r) ==
    /\ Returns("rate", difficulty, card, quality, outcome, r)
    /\ currentGame' =
            IF r.thrown = "none"
            THEN [currentGame EXCEPT
                    !.results = Append(@, [chunkId |-> card, difficulty |-> difficulty,
                                           quality |-> quality,
                                           newInterval |-> r.value.interval]),
                    !.currentIndex = @ + 1,
                    !.isFlipped = FALSE]
            ELSE currentGame
    /\ Graded(card, quality)

RateQuality(card, difficulty, quality, t, outcome) ==
    RateCard(card, difficulty, quality, outcome,
             updateSRS(localStorage, card, quality, t, outcome))

\* FlashcardsGame.rate(difficulty), made at time t.
Rate(difficulty, t) ==
    /\ currentGame.exists
    /\ IF ~HasCurrentCard(currentGame)
       THEN /\ t = now
            /\ last' = [NoCall EXCEPT !.op = "rate", !.difficulty = difficulty]
            /\ UNCHANGED <<localStorage, now, currentGame, calls, run, lapsed>>
       ELSE /\ calls < MaxGrades
            /\ RateQuality(getCurrentCard(currentGame), difficulty,
                           difficultyToQuality(difficulty), t, "ok")
            /\ now' = t
    /\ UNCHANGED <<sessionStorage, state, tabs>>

\* FlashcardsGame.rate(difficulty), made at time t on a card, the write to
\* localStorage having this outcome.
RateWrite(difficulty, t, outcome) ==
    /\ currentGame.exists
    /\ HasCurrentCard(currentGame)
    /\ calls < MaxStoreCalls
    /\ RateQuality(getCurrentCard(currentGame), difficulty,
                   difficultyToQuality(difficulty), t, outcome)
    /\ now' = t
    /\ UNCHANGED <<sessionStorage, state, tabs>>

\* The record of a call that takes no item.
Calls(op) == last' = [NoCall EXCEPT !.op = op]

\* navigate(screen, params): the state is changed and saveSessionState(state)
\* is called.
Navigate(st) ==
    /\ state' = st
    /\ sessionStorage' = saveSessionState(sessionStorage, st)

\* generateContent(topic): the cached content is used if there is one, else
\* the generated content is cached.
generateContent(store, topicId) ==
    IF hasCache(store, topicId) THEN store
    ELSE setCache(store, topicId, ContentChunks, "ok").store

\* selectTopic(topicId), the content being generated: navigate('vocabulary').
SelectTopic(topicId) ==
    /\ localStorage' = generateContent(localStorage, topicId)
    /\ Navigate([state EXCEPT !.selectedTopic = topicId, !.currentScreen = "vocabulary"])
    /\ Calls("selectTopic")
    /\ UNCHANGED <<now, currentGame, calls, run, lapsed, tabs>>

\* clearCache(topicId)
ClearCache(topicId) ==
    /\ localStorage' = clearCache(localStorage, topicId)
    /\ Calls("clearCache")
    /\ UNCHANGED <<now, currentGame, calls, run, lapsed, sessionStorage, state, tabs>>

\* clearAllCache()
ClearAllCache ==
    /\ localStorage' = clearAllCache(localStorage)
    /\ Calls("clearAllCache")
    /\ UNCHANGED <<now, currentGame, calls, run, lapsed, sessionStorage, state, tabs>>

\* clearSessionState()
ClearSessionState ==
    /\ sessionStorage' = clearSessionState(sessionStorage)
    /\ Calls("clearSessionState")
    /\ UNCHANGED <<localStorage, now, currentGame, calls, run, lapsed, state, tabs>>

\* gamesPlayed.includes(gameId)
includes(gamesPlayed, gameId) == \E i \in 1..Len(gamesPlayed) : gamesPlayed[i] = gameId

\* The games played of a topic, the empty list if the topic has no entry.
GamesPlayed(progress, topicId) ==
    IF topicId \in DOMAIN progress.topicsCompleted
    THEN progress.topicsCompleted[topicId].gamesPlayed
    ELSE <<>>

\* if (!topicProgress.gamesPlayed.includes(gameId)) push(gameId)
PushNew(gamesPlayed, gameId) ==
    IF includes(gamesPlayed, gameId) THEN gamesPlayed ELSE Append(gamesPlayed, gameId)

\* The progress after the game is entered for the topic.
Played(progress, topicId, gameId) ==
    [topicsCompleted |->
        [k \in DOMAIN progress.topicsCompleted \cup {topicId} |->
            IF k = topicId
            THEN [gamesPlayed |-> PushNew(GamesPlayed(progress, topicId), gameId)]
            ELSE progress.topicsCompleted[k]]]

\* saveGameResult(gameId, results) after clearSessionState(): nothing is
\* saved without a selected topic.
saveGameResult(store, st, gameId, outcome) ==
    IF st.selectedTopic = "null"
    THEN [store |-> store, returned |-> TRUE, thrown |-> "none"]
    ELSE saveProgress(store, Played(getProgress(store), st.selectedTopic, gameId), outcome)

SaveGameResult(gameId, outcome) ==
    /\ sessionStorage' = clearSessionState(sessionStorage)
    /\ localStorage' = saveGameResult(localStorage, state, gameId, outcome).store
    /\ last' = [NoCall EXCEPT !.op = "saveGameResult", !.outcome = outcome]
    /\ UNCHANGED <<now, currentGame, calls, run, lapsed, state, tabs>>

\* new FlashcardsGame(content)
FlashcardsGame(store, chunks) ==
    [exists |-> TRUE, cards |-> sortByPriority(store, chunks),
     currentIndex |-> 0, isFlipped |-> FALSE, results |-> <<>>]

\* saveGameState({gameId, currentIndex, ...}): of the saved fields
\* FlashcardsGame has currentIndex only.
saveGameState(session, gameId, game) ==
    SaveSerialized(session, GAME_STATE,
                   JSONStringify([gameId |-> gameId, currentIndex |-> game.currentIndex]),
                   "ok").store

\* loadGameState() gives a state saved for this game.
HasGameState(session, gameId) ==
    /\ HasItem(session, GAME_STATE)
    /\ JSONParse(session[GAME_STATE]).gameId = gameId

\* renderGameScreen() from the new game on: currentIndex is restored from
\* the saved game state if there is one for the game.
renderGameScreen(session, gameId, game) ==
    IF HasGameState(session, gameId)
    THEN [game EXCEPT !.currentIndex = JSONParse(session[GAME_STATE]).currentIndex]
    ELSE game

\* init(): the state is restored from the session state if there is one.
init(session) ==
    IF HasItem(session, APP_STATE) THEN JSONParse(session[APP_STATE]) ELSE InitialState

\* render(): the game screen of flashcards builds the game, the other
\* screens leave the module's currentGame as it is; the objects of the
\* other games are not modelled.
render(store, session, st, game) ==
    IF st.currentScreen # "game" THEN game
    ELSE IF st.currentGame = "flashcards"
    THEN renderGameScreen(session, "flashcards", FlashcardsGame(store, ContentChunks))
    ELSE NoGame

\* The page is loaded anew over these storage areas: init() and render().
Reloaded(store, session) ==
    /\ state' = init(session)
    /\ currentGame' = render(store, session, init(session), NoGame)

\* clearAllData(), confirmed: localStorage.clear(); location.reload()
ClearAllData ==
    /\ localStorage' = EmptyStorage
    /\ Reloaded(EmptyStorage, sessionStorage)
    /\ Calls("clearAllData")
    /\ UNCHANGED <<now, calls, run, lapsed, sessionStorage, tabs>>

\* The button of the vocabulary screen: navigate('games').
OpenGames ==
    /\ state.currentScreen = "vocabulary"
    /\ Navigate([state EXCEPT !.currentScreen = "games"])
    /\ Calls("navigate")
    /\ UNCHANGED <<localStorage, now, currentGame, calls, run, lapsed, tabs>>

\* startGame(gameId) from navigate on: the session state is saved and the
\* screen is rendered.
Started(st) ==
    /\ Navigate(st)
    /\ currentGame' = render(localStorage, sessionStorage, st, currentGame)

\* startGame(gameId): a removed game leads back to the games screen.
startGame(st, gameId) ==
    IF gameId \in REMOVED_GAMES
    THEN [st EXCEPT !.currentScreen = "games"]
    ELSE [st EXCEPT !.currentGame = gameId, !.currentScreen = "game"]

StartGame(gameId) ==
    /\ state.currentScreen = "games"
    /\ Started(startGame(state, gameId))
    /\ last' = [NoCall EXCEPT !.op = "startGame", !.chunkId = gameId]
    /\ UNCHANGED <<localStorage, now, calls, run, lapsed, tabs>>

\* renderGame(): the game state is saved on every rendering of the game.
RenderGame == sessionStorage' = saveGameState(sessionStorage, state.currentGame, currentGame')

\* The card is clicked: currentGame.flip(); renderGame()
FlipButton ==
    /\ state.currentScreen = "game"
    /\ currentGame.exists
    /\ HasCurrentCard(currentGame)
    /\ currentGame' = [currentGame EXCEPT !.isFlipped = ~@]
    /\ RenderGame
    /\ Calls("flip")
    /\ UNCHANGED <<localStorage, now, calls, run, lapsed, state, tabs>>

\* A rating button of the flipped card is clicked:
\* currentGame.rate(difficulty); renderGame()
RateButton(difficulty, t) ==
    /\ state.currentScreen = "game"
    /\ currentGame.exists
    /\ HasCurrentCard(currentGame)
    /\ currentGame.isFlipped
    /\ calls < MaxGrades
    /\ RateQuality(getCurrentCard(currentGame), difficulty,
                   difficultyToQuality(difficulty), t, "ok")
    /\ now' = t
    /\ RenderGame
    /\ UNCHANGED <<state, tabs>>

\* The page is reloaded: location.reload()
Reload ==
    /\ Reloaded(localStorage, sessionStorage)
    /\ Calls("reload")
    /\ UNCHANGED <<localStorage, now, calls, run, lapsed, sessionStorage, tabs>>

\* The button of a results screen:
\* App.saveGameResult(gameId, results); App.navigate('games')
Continued(st, r) ==
    /\ localStorage' = r.store
    /\ state' = st
    /\ sessionStorage' = saveSessionState(clearSessionState(sessionStorage), st)

Continue ==
    /\ state.currentScreen = "game"
    /\ Continued([state EXCEPT !.currentScreen = "games"],
                 saveGameResult(localStorage, state, state.currentGame, "ok"))
    /\ last' = [NoCall EXCEPT !.op = "saveGameResult", !.chunkId = state.currentGame]
    /\ UNCHANGED <<now, currentGame, calls, run, lapsed, tabs>>

\* updateSRS up to and including getSRSData() and the grading of the loaded
\* record, run by a tab at time t.
LoadSRS(tab, chunkId, quality, t) ==
    /\ tabs[tab].pc = "idle"
    /\ calls < MaxTabCalls
    /\ tabs' = [tabs EXCEPT ![tab] =
                    [pc |-> "loaded", chunkId |-> chunkId, quality |-> quality,
                     srsData |-> getSRSData(localStorage),
                     current |-> getSRSForChunk(localStorage, chunkId),
                     updated |-> Updated(getSRSForChunk(localStorage, chunkId), quality, t),
                     missed |-> {}]]
    /\ last' = [NoCall EXCEPT !.op = "getSRSData", !.chunkId = chunkId, !.quality = quality]
    /\ now' = t
    /\ Graded(chunkId, quality)
    /\ UNCHANGED <<localStorage, currentGame, sessionStorage, state>>

\* The rest of updateSRS where the mapping is loaded again before it is
\* changed and saved.
SaveLoaded_Reloaded(store, tab) ==
    UpdateLoaded(store, getSRSData(store), tab.chunkId, tab.current, tab.updated, "ok")

\* The rest of updateSRS: srsData[chunkId] = updated; saveSRSData(srsData),
\* srsData being the mapping the tab loaded.
SaveLoaded(store, tab) ==
    UpdateLoaded(store, tab.srsData, tab.chunkId, tab.current, tab.updated, "ok")

\* A tab finishes its updateSRS; the tabs that are between their load and
\* their save have now missed this item's update.
SaveSRS(tab) ==
    /\ tabs[tab].pc = "loaded"
    /\ Returns("updateSRS", "none", tabs[tab].chunkId, tabs[tab].quality, "ok",
               SaveLoaded(localStorage, tabs[tab]))
    /\ tabs' = [x \in Tabs |->
                    IF x = tab THEN [tabs[x] EXCEPT !.pc = "idle"]
                    ELSE IF tabs[x].pc = "loaded"
                    THEN [tabs[x] EXCEPT !.missed = @ \cup {tabs[tab].chunkId}]
                    ELSE tabs[x]]
    /\ UNCHANGED <<now, currentGame, calls, run, lapsed, sessionStorage, state>>

\* One item graded again and again: the repository called directly, as the
\* property tests do.
Next == \E quality \in Quality, t \in ClockReadings :
            UpdateSRS(ContentChunks[1], quality, t)

Spec == Init /\ [][Next]_vars

\* A flashcards session: the game is built, cards are flipped and rated.
NextGame ==
    \/ NewGame
    \/ Flip
    \/ \E difficulty \in Labels, t \in ClockReadings : Rate(difficulty, t)

SpecGame == Init /\ [][NextGame]_vars

\* The repository called directly on a store that may refuse a write: one
\* item is graded, and the records of the items are read.
NextRepo ==
    \/ \E quality \in Quality, t \in ClockReadings, outcome \in WriteOutcomes :
            UpdateSRSWrite(ContentChunks[1], quality, t, outcome)
    \/ \E chunkId \in Items : GetSRSForChunk(chunkId)

SpecRepo == Init /\ [][NextRepo]_vars

\* Items are graded and lists of them are sorted.
NextSort ==
    \/ \E chunkId \in Items, quality \in SortQuality, t \in ClockReadings :
            GradeBeforeSort(chunkId, quality, t)
    \/ \E chunks \in ChunkLists : SortByPriority(chunks)

SpecSort == Init /\ [][NextSort]_vars

\* Several items graded one call after the other on a store that may refuse
\* a write.
NextFrame ==
    \E i \in 1..Len(LongContent), quality \in TabQuality, t \in ClockReadings,
       outcome \in WriteOutcomes :
        UpdateSRSWrite(LongContent[i], quality, t, outcome)

SpecFrame == Init /\ [][NextFrame]_vars

\* One item graded with integers of any size.
NextQuality ==
    \E quality \in AnyQuality, t \in ClockReadings :
        UpdateSRSWrite(ContentChunks[1], quality, t, "ok")

SpecQuality == Init /\ [][NextQuality]_vars

\* Two tabs of the application grade items over the shared localStorage;
\* the steps of their updateSRS executions interleave.
NextTabs ==
    \/ \E tab \in Tabs, i \in 1..Len(ContentChunks), quality \in TabQuality, t \in ClockReadings :
            LoadSRS(tab, ContentChunks[i], quality, t)
    \/ \E tab \in Tabs : SaveSRS(tab)

SpecTabs == Init /\ [][NextTabs]_vars

\* The game whose result and the topic whose content are saved next to the
\* SRS records.
DataGames == {"flashcards"}

DataTopics == {"t1"}

\* The exported functions that change localStorage or sessionStorage,
\* called directly.
NextData ==
    \/ \E i \in 1..Len(ContentChunks), quality \in TabQuality, t \in ClockReadings :
            UpdateSRSWrite(ContentChunks[i], quality, t, "ok")
    \/ \E topicId \in DataTopics : SelectTopic(topicId)
    \/ \E topicId \in DataTopics : ClearCache(topicId)
    \/ ClearAllCache
    \/ ClearSessionState
    \/ \E gameId \in DataGames : SaveGameResult(gameId, "ok")
    \/ ClearAllData

SpecData == Init /\ [][NextData]_vars

\* A flashcards session of a topic in the browser: cards are flipped and
\* rated, and the page is reloaded at any moment.
NextRestore ==
    \/ \E topicId \in DataTopics : state.currentScreen = "home" /\ SelectTopic(topicId)
    \/ OpenGames
    \/ StartGame("flashcards")
    \/ FlipButton
    \/ \E difficulty \in Labels \ {"again"}, t \in ClockReadings : RateButton(difficulty, t)
    \/ Reload

SpecRestore == Init /\ [][NextRestore]_vars

\* The games of a topic are started and finished: a game not yet played is
\* started in the order of the games screen, a game already played or a
\* removed game at any time.
NextTopic ==
    \/ \E topicId \in DataTopics : state.currentScreen = "home" /\ SelectTopic(topicId)
    \/ OpenGames
    \/ \E gameId \in OfferedGames \cup REMOVED_GAMES :
            /\ \A i \in 1..Len(Games) :
                    Games[i] = gameId =>
                        \A j \in 1..(i - 1) :
                            includes(GamesPlayed(getProgress(localStorage), state.selectedTopic),
                                     Games[j])
            /\ StartGame(gameId)
    \/ Continue
    \/ Reload

SpecTopic == Init /\ [][NextTopic]_vars

\* One item rated "easy" review after review.
NextLong == \E quality \in LongQuality : UpdateSRSLong(ContentChunks[1], quality, now)

SpecLong == Init /\ [][NextLong]_vars

\* The persisted SRS document is missing or is not the text of a mapping.
InitCorrupt ==
    /\ localStorage \in {[k \in {} |-> JSONStringify(EmptyObject)]}
                            \cup {[k \in {SRS_DATA} |-> d] : d \in CorruptDocuments}
    /\ now = 1
    /\ currentGame = NoGame
    /\ calls = 0
    /\ run = [id \in Items |-> <<>>]
    /\ lapsed = [id \in Items |-> FALSE]
    /\ last = NoCall
    /\ sessionStorage = EmptyStorage
    /\ state = InitialState
    /\ tabs = [tab \in Tabs |-> IdleTab]

\* The repository called on whatever document it finds.
NextCorrupt ==
    \/ \E quality \in Quality, t \in ClockReadings :
            UpdateSRSWrite(ContentChunks[1], quality, t, "ok")
    \/ \E chunkId \in Items : GetSRSForChunk(chunkId)
    \/ \E chunks \in ChunkLists : SortByPriority(chunks)

SpecCorrupt == InitCorrupt /\ [][NextCorrupt]_vars

\* A flashcards session on a store that may refuse a write.
NextSession ==
    \/ NewGame
    \/ Flip
    \/ \E difficulty \in Labels, t \in ClockReadings, outcome \in WriteOutcomes :
            RateWrite(difficulty, t, outcome)

SpecSession == Init /\ [][NextSession]_vars

(***************************************************************************)
(* Properties                                                              *)
(***************************************************************************)
\* The records the store holds.
StoredIds == DOMAIN getSRSData(localStorage)

StoredRecord(id) == getSRSData(localStorage)[id]

\* The record the last call returned, when it graded and returned.
Returned == last.graded /\ last.returned

\* x >= y on doubles
FGeq(x, y) == ~FLess(x, y)

\* C1: after every sequence of updateSRS calls with qualities 0..5 from an
\* empty store, the easeFactor of every stored record and of the returned
\* record is at least 1.3.
C1_EaseFactorFloor ==
    /\ \A id \in StoredIds : FGeq(StoredRecord(id).easeFactor, Dec(13, 10))
    /\ Returned => FGeq(last.value.easeFactor, Dec(13, 10))

\* A grade of 0 on an ease factor at the floor: 1.3 - 0.8 was floored to 1.3.
C1_Witness ==
    /\ Returned
    /\ last.value.easeFactor = Dec(13, 10)
    /\ last.current.easeFactor = Dec(13, 10)
    /\ last.quality = 0
    /\ StoredRecord(last.chunkId) = last.value

\* C2: a call with quality < 3 returns and stores interval 1 and
\* repetitions 0, whatever the record was before.
C2_FailureResets ==
    (Returned /\ last.quality < 3) =>
        /\ last.value.interval = 1
        /\ last.value.repetitions = 0
        /\ StoredRecord(last.chunkId).interval = 1
        /\ StoredRecord(last.chunkId).repetitions = 0

\* A failed grade on a record that had several passes and a long interval.
C2_Witness ==
    /\ Returned
    /\ last.quality < 3
    /\ last.current.repetitions >= 2
    /\ last.current.interval > 1

\* C3: a call with quality >= 3 on an item without a stored record gives
\* interval 1 and repetitions 1.
C3_FirstPass ==
    (Returned /\ ~last.stored /\ last.quality >= 3) =>
        /\ last.value.interval = 1
        /\ last.value.repetitions = 1
        /\ StoredRecord(last.chunkId).interval = 1
        /\ StoredRecord(last.chunkId).repetitions = 1

C3_Witness ==
    /\ Returned
    /\ ~last.stored
    /\ last.current = DefaultRecord
    /\ last.quality >= 3

\* The item was graded from new by exactly these passing grades.
GradedFromNew(id, qualities) == ~lapsed[id] /\ run[id] = qualities

\* The item has been graded exactly twice, both times with a passing grade.
TwoPasses(id) ==
    /\ ~lapsed[id]
    /\ Len(run[id]) = 2
    /\ run[id][1] >= 3
    /\ run[id][2] >= 3

\* C4: after two calls with qualities >= 3 on a new item the record has
\* interval 6 and repetitions 2, for every pair of passing qualities.
C4_SecondPass ==
    \A id \in Items :
        TwoPasses(id) =>
            /\ id \in StoredIds
            /\ StoredRecord(id).interval = 6
            /\ StoredRecord(id).repetitions = 2
            /\ (last.chunkId = id /\ Returned) =>
                    (last.value.interval = 6 /\ last.value.repetitions = 2)

\* The second pass has just been made, with a grade other than the first.
C4_Witness ==
    /\ Returned
    /\ TwoPasses(last.chunkId)
    /\ run[last.chunkId] = <<3, 5>>

\* n is x rounded to the nearest integer, a tie going up: n - 1/2 <= x < n + 1/2
IsRoundHalfUp(n, x) ==
    /\ FGeq(FMulInt(2, x), FromInt(2 * n - 1))
    /\ FLess(FMulInt(2, x), FromInt(2 * n + 1))

\* C5: a call with quality >= 3 on a record with repetitions >= 2 gives
\* interval round(previous interval * previous easeFactor), the ease factor
\* being the one stored before the call and a tie rounding up, and adds one
\* to repetitions; grades 5,5,5 on a new item give intervals 1, 6, 16.
C5_IntervalGrowth ==
    /\ (Returned /\ last.quality >= 3 /\ last.current.repetitions >= 2) =>
            /\ IsRoundHalfUp(last.value.interval,
                             FMulInt(last.current.interval, last.current.easeFactor))
            /\ last.value.repetitions = last.current.repetitions + 1
    /\ \A id \in Items :
            /\ GradedFromNew(id, <<5>>) => StoredRecord(id).interval = 1
            /\ GradedFromNew(id, <<5, 5>>) => StoredRecord(id).interval = 6
            /\ GradedFromNew(id, <<5, 5, 5>>) => StoredRecord(id).interval = 16

\* The product was a tie: 15 * 2.5 = 37.5, which became 38.
C5_Witness ==
    /\ Returned
    /\ last.quality >= 3
    /\ last.current.repetitions >= 2
    /\ FMulInt(2, FMulInt(last.current.interval, last.current.easeFactor))
            = FromInt(2 * last.value.interval - 1)

\* The change of the ease factor per quality 0..5, in hundredths.
DeltaHundredths == <<0 - 80, 0 - 54, 0 - 32, 0 - 14, 0, 10>>

\* What double arithmetic may lose on an ease factor: 2^-50.
EaseTolerance == <<Pow2(10), 0, 0, 0>>

MagDist(a, b) == IF MagLess(a, b) THEN MagSub(b, a) ELSE MagSub(a, b)

\* old + h/100 computed without rounding, not below 1.3
DecimalEase(old, h) ==
    LET sum == IF h >= 0 THEN MagAdd(old.m, Dec(h, 100).m)
               ELSE MagSub(old.m, Dec(0 - h, 100).m)
    IN  IF MagLess(sum, Dec(13, 10).m) THEN Dec(13, 10).m ELSE sum

\* C6: every call, pass or fail, sets easeFactor to
\* max(1.3, old + 0.1 - (5-q)*(0.08 + (5-q)*0.02)) in double arithmetic,
\* which is old +0.10, 0, -0.14, -0.32, -0.54, -0.80 for q = 5..0, floored
\* at 1.3, to within the rounding of doubles.
C6_EaseUpdate ==
    Returned =>
        LET d   == 5 - last.quality
            sum == FAdd(last.current.easeFactor,
                        FSub(Dec(1, 10),
                             FMulInt(d, FAdd(Dec(8, 100), FMulInt(d, Dec(2, 100))))))
        IN  /\ last.value.easeFactor = IF FLess(sum, Dec(13, 10)) THEN Dec(13, 10) ELSE sum
            /\ ~last.value.easeFactor.neg
            /\ ~MagLess(EaseTolerance,
                        MagDist(last.value.easeFactor.m,
                                DecimalEase(last.current.easeFactor,
                                            DeltaHundredths[last.quality + 1])))
            /\ StoredRecord(last.chunkId).easeFactor = last.value.easeFactor

\* A failed grade lowered an ease factor that stays above the floor.
C6_Witness ==
    /\ Returned
    /\ last.quality < 3
    /\ FLess(Dec(13, 10), last.value.easeFactor)
    /\ FLess(last.value.easeFactor, last.current.easeFactor)

\* C7 within MaxGrades grades: the returned nextReview is
\* now + interval * 86,400,000 ms for the new interval (timestamps in
\* minutes: now + interval * DAY), and is after now.
C7_NextReview ==
    Returned =>
        /\ last.value.nextReview = now + last.value.interval * DAY
        /\ DAY * MS_PER_MINUTE = 86400000
        /\ last.value.nextReview > now

\* C8 within MaxGrades grades: in every stored or returned record
\* interval >= 1 whenever repetitions >= 1, and no record with interval 0 is
\* written.
C8_IntervalPositive ==
    /\ \A id \in StoredIds :
            /\ StoredRecord(id).interval # 0
            /\ StoredRecord(id).repetitions >= 1 => StoredRecord(id).interval >= 1
    /\ Returned =>
            /\ last.value.interval # 0
            /\ last.value.repetitions >= 1 => last.value.interval >= 1

\* C9: the repetitions of an item is the number of grades >= 3 made since
\* its last grade < 3, or since its first grade if it has none.
C9_RepetitionsCount ==
    \A id \in Items :
        /\ id \in StoredIds <=> (lapsed[id] \/ run[id] # <<>>)
        /\ id \in StoredIds =>
                /\ StoredRecord(id).repetitions = Len(run[id])
                /\ \A i \in 1..Len(run[id]) : run[id][i] >= 3

\* An item that failed after passing and has passed twice since.
C9_Witness ==
    /\ Returned
    /\ lapsed[last.chunkId]
    /\ Len(run[last.chunkId]) = 2
    /\ last.current.repetitions = 1

\* C10: rate grades hard as 1, medium as 3, easy as 5 and any other label
\* as 3, so a card rated with an unknown label is graded as a pass.
C10_DifficultyToQuality ==
    (last.op = "rate" /\ last.graded) =>
        /\ last.difficulty = "hard" => last.quality = 1
        /\ last.difficulty = "medium" => last.quality = 3
        /\ last.difficulty = "easy" => last.quality = 5
        /\ last.difficulty \notin {"hard", "medium", "easy"} =>
                /\ last.quality = 3
                /\ last.value.repetitions = last.current.repetitions + 1
                /\ StoredRecord(last.chunkId).repetitions = last.current.repetitions + 1
        /\ currentGame.results[Len(currentGame.results)].quality = last.quality
        /\ currentGame.results[Len(currentGame.results)].difficulty = last.difficulty

\* A card was rated with a label that is none of hard, medium, easy.
C10_Witness ==
    /\ last.op = "rate"
    /\ last.graded
    /\ last.difficulty = "again"
    /\ last.value.repetitions >= 1

\* C11: getSRSForChunk(id) returns the record stored for id when there is
\* one, and otherwise the record {interval 0, easeFactor 2.5, nextReview 0,
\* repetitions 0}; it returns, it does not throw.
C11_GetRecordOrDefault ==
    last.op = "getSRSForChunk" =>
        /\ last.returned
        /\ last.chunkId \in StoredIds => last.value = StoredRecord(last.chunkId)
        /\ last.chunkId \notin StoredIds =>
                last.value = [interval |-> 0, easeFactor |-> Dec(25, 10),
                              nextReview |-> 0, repetitions |-> 0]

\* The record of an item that passed twice was read.
C11_Witness ==
    /\ last.op = "getSRSForChunk"
    /\ last.chunkId \in StoredIds
    /\ last.value.interval = 6
    /\ last.value.repetitions = 2

\* C12 (as claimed): a getSRSForChunk(id) made right after updateSRS(id, q)
\* returned gives the record updateSRS returned.
C12_ReadAfterUpdate ==
    [][(/\ last.op = "updateSRS"
        /\ last.returned
        /\ last'.op = "getSRSForChunk"
        /\ last'.chunkId = last.chunkId) => last'.value = last.value]_vars

\* C13: getSRSForChunk leaves the stored mapping as it was, so the default
\* record of an unseen item is not persisted, and a second call for the same
\* id right after the first returns an equal record.
C13_GetIsPureRead ==
    [][last'.op = "getSRSForChunk" =>
        /\ localStorage' = localStorage
        /\ (last.op = "getSRSForChunk" /\ last.chunkId = last'.chunkId) =>
                last'.value = last.value]_vars

\* An item without a record was read while another item has one, and the
\* mapping still holds no record for it.
C13_Witness ==
    /\ last.op = "getSRSForChunk"
    /\ last.value = DefaultRecord
    /\ StoredIds # {}
    /\ last.chunkId \notin StoredIds

\* C19 (as claimed): whenever the write made by updateSRS fails, with the
\* quota error or with any other error, updateSRS does not return the new
\* record: it throws.
C19_WriteFailureSignalled ==
    (last.op = "updateSRS" /\ last.graded /\ last.outcome # "ok") => ~last.returned

\* C20 (as claimed): a rate whose write fails changes nothing: the stored
\* mapping, currentIndex and results are what they were, and the same card
\* is current.
C20_FailedRateHasNoEffect ==
    [][(/\ calls' = calls + 1
        /\ last'.op = "rate"
        /\ last'.outcome # "ok") =>
            /\ localStorage' = localStorage
            /\ currentGame'.currentIndex = currentGame.currentIndex
            /\ currentGame'.results = currentGame.results]_vars

\* The nextReview the store holds for an item, 0 for an item it holds no
\* record for.
DueAt(id) == IF id \in StoredIds THEN StoredRecord(id).nextReview ELSE 0

\* The place of an item in a list that holds it once.
Place(list, id) == CHOOSE i \in DOMAIN list : list[i] = id

\* C14: in the list sortByPriority returns, every item without a stored
\* record (or with nextReview 0) comes before every item whose nextReview is
\* not 0; A new, B due later than C gives [A, C, B] from [A, B, C].
C14_NewItemsFirst ==
    last.op = "sortByPriority" =>
        /\ \A i, j \in DOMAIN last.cards :
                (DueAt(last.cards[i]) = 0 /\ DueAt(last.cards[j]) # 0) => i < j
        /\ \A a, b, c \in Items :
                (/\ last.input = <<a, b, c>>
                 /\ DueAt(a) = 0
                 /\ 0 < DueAt(c)
                 /\ DueAt(c) < DueAt(b)) => last.cards = <<a, c, b>>

\* A list whose only new item came last, behind two items that are due,
\* the later one first.
C14_Witness ==
    /\ last.op = "sortByPriority"
    /\ Len(last.input) = 3
    /\ DueAt(last.input[3]) = 0
    /\ DueAt(last.input[1]) > DueAt(last.input[2])
    /\ DueAt(last.input[2]) > 0
    /\ last.cards = <<last.input[3], last.input[2], last.input[1]>>

\* C15: in the list sortByPriority returns, of two items with a non-zero
\* nextReview the one with the smaller nextReview comes first, and a list
\* whose nextReview values are non-zero and distinct comes out strictly
\* ascending.
C15_AscendingNextReview ==
    last.op = "sortByPriority" =>
        /\ \A i, j \in DOMAIN last.cards :
                (/\ DueAt(last.cards[i]) # 0
                 /\ DueAt(last.cards[j]) # 0
                 /\ DueAt(last.cards[i]) < DueAt(last.cards[j])) => i < j
        /\ (\A i, j \in DOMAIN last.input :
                /\ DueAt(last.input[i]) # 0
                /\ i # j => DueAt(last.input[i]) # DueAt(last.input[j]))
            => \A i \in 1..(Len(last.cards) - 1) :
                    DueAt(last.cards[i]) < DueAt(last.cards[i + 1])

\* Three items with distinct due dates were given latest first.
C15_Witness ==
    /\ last.op = "sortByPriority"
    /\ Len(last.input) = 3
    /\ DueAt(last.input[1]) > DueAt(last.input[2])
    /\ DueAt(last.input[2]) > DueAt(last.input[3])
    /\ DueAt(last.input[3]) > 0
    /\ last.cards = <<last.input[3], last.input[2], last.input[1]>>

\* C16: two items that tie (both new, or equal nextReview) come out in the
\* order they went in.
C16_StableOnTies ==
    last.op = "sortByPriority" =>
        \A i, j \in DOMAIN last.input :
            (i < j /\ DueAt(last.input[i]) = DueAt(last.input[j])) =>
                Place(last.cards, last.input[i]) < Place(last.cards, last.input[j])

\* Two items due at the same time went in around a new item, the one with
\* the last id first.
C16_Witness ==
    /\ last.op = "sortByPriority"
    /\ Len(last.input) = 3
    /\ DueAt(last.input[1]) = DueAt(last.input[3])
    /\ DueAt(last.input[1]) # 0
    /\ DueAt(last.input[2]) = 0
    /\ last.input[1] = "c3"
    /\ last.cards = <<last.input[2], last.input[1], last.input[3]>>

\* How often an item occurs in a list.
Count(list, id) == Cardinality({i \in DOMAIN list : list[i] = id})

\* C17: sortByPriority returns a list with the items of its input, each as
\* often as in the input, and leaves the input list and the stored mapping
\* as they were.
C17_SortIsNonDestructive ==
    [][last'.op = "sortByPriority" =>
        /\ Len(last'.cards) = Len(last'.input)
        /\ \A id \in Items : Count(last'.cards, id) = Count(last'.input, id)
        /\ last'.chunks = last'.input
        /\ localStorage' = localStorage]_vars

\* A list was put into another order over a store that holds records.
C17_Witness ==
    /\ last.op = "sortByPriority"
    /\ last.cards # last.input
    /\ last.chunks = last.input
    /\ StoredIds # {}

\* -1, 0 or 1
Sign(n) == IF n < 0 THEN 0 - 1 ELSE IF n > 0 THEN 1 ELSE 0

\* C18: over every store and all items the comparator of sortByPriority is
\* a consistent weak ordering: sign(cmp(a,b)) = -sign(cmp(b,a)), and
\* cmp(a,b) <= 0 with cmp(b,c) <= 0 gives cmp(a,c) <= 0.
C18_ComparatorConsistent ==
    \A a, b, c \in Items :
        /\ Sign(Compare(getSRSData(localStorage), a, b))
                = 0 - Sign(Compare(getSRSData(localStorage), b, a))
        /\ (/\ Compare(getSRSData(localStorage), a, b) <= 0
            /\ Compare(getSRSData(localStorage), b, c) <= 0)
                => Compare(getSRSData(localStorage), a, c) <= 0

\* A new item and two items due at different times: three items the
\* comparator puts in a chain.
C18_Witness ==
    \E a, b, c \in Items :
        /\ DueAt(a) = 0
        /\ 0 < DueAt(b)
        /\ DueAt(b) < DueAt(c)
        /\ Compare(getSRSData(localStorage), a, b) < 0
        /\ Compare(getSRSData(localStorage), b, c) < 0
        /\ Compare(getSRSData(localStorage), c, a) > 0

\* The persisted SRS document is missing or corrupt.
IsCorrupt(store) == ~HasItem(store, SRS_DATA) \/ store[SRS_DATA].text # "json"

\* C21 (as claimed): on a missing or corrupt document every call behaves as
\* on an empty mapping and none throws: getSRSForChunk returns the default
\* record, sortByPriority treats every item as new and so returns the list
\* in its input order, updateSRS grades from the default record.
C21_CorruptIsEmpty ==
    [][IsCorrupt(localStorage) =>
        /\ last'.op = "getSRSForChunk" =>
                (last'.returned /\ last'.value = DefaultRecord)
        /\ last'.op = "sortByPriority" => last'.cards = last'.input
        /\ last'.op = "updateSRS" =>
                /\ last'.returned
                /\ last'.current = DefaultRecord
                /\ last'.value = Updated(DefaultRecord, last'.quality, now')]_vars

\* C22: updateSRS throws for no integer quality, below 0 and above 5
\* included: it returns a record, and that record is the one stored.
C22_AnyQualityAccepted ==
    last.op = "updateSRS" =>
        /\ last.returned
        /\ last.chunkId \in StoredIds
        /\ StoredRecord(last.chunkId) = last.value
        /\ FGeq(last.value.easeFactor, Dec(13, 10))

\* A stored record was graded with an integer above 5 after one below 0.
C22_Witness ==
    /\ last.op = "updateSRS"
    /\ last.returned
    /\ last.quality > 5
    /\ last.current.repetitions = 1
    /\ lapsed[last.chunkId]
    /\ StoredRecord(last.chunkId) = last.value

\* C23: updateSRS is not isolated. When a tab saves after another tab saved
\* a different item between this tab's load and its save, the mapping it
\* leaves holds for that item what this tab had loaded, not the other tab's
\* update: the update is lost.
C23_LostUpdate ==
    [][\A tab \in Tabs :
            (tabs[tab].pc = "loaded" /\ tabs'[tab].pc = "idle") =>
                \A id \in tabs[tab].missed \ {tabs[tab].chunkId} :
                    /\ (id \in DOMAIN getSRSData(localStorage'))
                            = (id \in DOMAIN tabs[tab].srsData)
                    /\ RecordOrDefault(getSRSData(localStorage'), id)
                            = RecordOrDefault(tabs[tab].srsData, id)]_vars

\* Both tabs loaded the empty mapping before either saved, both have saved,
\* and the item of the first saver has no stored record.
C23_Witness ==
    \E a \in Tabs, b \in Tabs :
        /\ a # b
        /\ tabs[a].pc = "idle" /\ tabs[b].pc = "idle"
        /\ tabs[a].srsData = EmptyObject /\ tabs[b].srsData = EmptyObject
        /\ tabs[a].chunkId \in Items /\ tabs[b].chunkId \in Items
        /\ tabs[a].chunkId # tabs[b].chunkId
        /\ tabs[a].chunkId \in tabs[b].missed
        /\ tabs[a].chunkId \notin StoredIds
        /\ tabs[b].chunkId \in StoredIds
        /\ calls = 2

\* C24: no operation but clearAllData removes or resets a stored record:
\* after every other step each stored item still has a record, which is
\* not the default one and, unless the step was updateSRS for that item,
\* is the record it had.
C24_RecordsKept ==
    [][last'.op # "clearAllData" =>
            \A id \in StoredIds :
                /\ id \in DOMAIN getSRSData(localStorage')
                /\ getSRSData(localStorage')[id] # DefaultRecord
                /\ (last'.op # "updateSRS" \/ last'.chunkId # id)
                        => getSRSData(localStorage')[id] = StoredRecord(id)]_vars

\* Two items have records; a topic was selected, which cached its content,
\* the cache has been cleared since, and a game result has just been saved,
\* which cleared the session state.
C24_Witness ==
    /\ StoredIds = {ContentChunks[1], ContentChunks[2]}
    /\ last.op = "saveGameResult"
    /\ state.selectedTopic \in DataTopics
    /\ HasItem(localStorage, PROGRESS)
    /\ \A topicId \in DataTopics : ~hasCache(localStorage, topicId)
    /\ sessionStorage = EmptyStorage

\* C25: when the session is complete, the percentage getResults reports is
\* round(correct / total * 100) for the correct and the total it reports,
\* and 0 when total is 0.
C25_PercentageOfCorrect ==
    (currentGame.exists /\ isComplete(currentGame)) =>
        getResults(currentGame).percentage
            = Percentage(getResults(currentGame).correct, getResults(currentGame).total)

\* C26: in sequential execution a call of updateSRS(id, q) that returns
\* leaves the stored record of every other item as it was (none appears,
\* none disappears) and leaves for id the record it returns, so that each
\* item's stored record is the one the last updateSRS for it returned.
C26_OnlyTheGradedRecordChanges ==
    [][(last'.op = "updateSRS" /\ last'.returned) =>
            /\ DOMAIN getSRSData(localStorage') = StoredIds \cup {last'.chunkId}
            /\ \A id \in StoredIds \ {last'.chunkId} :
                    getSRSData(localStorage')[id] = StoredRecord(id)
            /\ getSRSData(localStorage')[last'.chunkId] = last'.value]_vars

\* C27: a rate call made while there is a current card runs updateSRS once,
\* for that card, appends one result and moves currentIndex on by one; a
\* rate call made when isComplete() holds changes neither the stored
\* mapping nor results nor currentIndex.
C27_RateGradesOnce ==
    [][last'.op = "rate" =>
            IF isComplete(currentGame)
            THEN /\ localStorage' = localStorage
                 /\ currentGame'.results = currentGame.results
                 /\ currentGame'.currentIndex = currentGame.currentIndex
                 /\ calls' = calls
            ELSE /\ calls' = calls + 1
                 /\ last'.chunkId = getCurrentCard(currentGame)
                 /\ getSRSData(localStorage')
                        = Assign(getSRSData(localStorage), last'.chunkId, last'.value)
                 /\ Len(currentGame'.results) = Len(currentGame.results) + 1
                 /\ SubSeq(currentGame'.results, 1, Len(currentGame.results))
                        = currentGame.results
                 /\ currentGame'.results[Len(currentGame'.results)].chunkId = last'.chunkId
                 /\ currentGame'.currentIndex = currentGame.currentIndex + 1]_vars

\* Every card of the session was rated and rate was then called once more.
C27_Witness ==
    /\ last.op = "rate"
    /\ ~last.graded
    /\ currentGame.exists
    /\ isComplete(currentGame)
    /\ Len(currentGame.results) = Len(ContentChunks)
    /\ calls >= Len(ContentChunks)

\* The item has been graded.
WasGraded(id) == run[id] # <<>> \/ lapsed[id]

\* C28: a flashcards session that is interrupted and restored presents
\* every card of the content exactly once: no rating grades a card that
\* was graded before, and when the session is complete every card has
\* been graded.
C28_EveryCardOnce ==
    [][/\ (last'.op = "rate" /\ last'.graded) => ~WasGraded(last'.chunkId)
       /\ (state'.currentScreen = "game" /\ currentGame'.exists /\ isComplete(currentGame'))
            => \A i \in 1..Len(ContentChunks) :
                    run'[ContentChunks[i]] # <<>> \/ lapsed'[ContentChunks[i]]]_vars

\* C30: finishing the games offered on the games screen completes the
\* topic: once every offered game has been finished for the selected
\* topic, its gamesPlayed has at least 10 entries.
C30_OfferedGamesComplete ==
    (/\ state.selectedTopic \in Topics
     /\ \A gameId \in OfferedGames :
            includes(GamesPlayed(getProgress(localStorage), state.selectedTopic), gameId))
        => Len(GamesPlayed(getProgress(localStorage), state.selectedTopic)) >= CompletedGames

(***************************************************************************)
(* Hundreds of passing grades on one item                                  *)
(***************************************************************************)
\* C29: a grade with quality >= 3 never yields an interval smaller than the
\* interval the item had before it, and along a run of passing grades that
\* starts on a new item each interval is strictly greater than the one
\* before.
C29_IntervalsGrow ==
    (Returned /\ last.quality >= 3) =>
        /\ ~NumLess(last.value.interval, ToNumber(last.current.interval))
        /\ (~lapsed[last.chunkId] /\ Len(run[last.chunkId]) >= 2) =>
                NumLess(ToNumber(last.current.interval), last.value.interval)

\* C7 over any number of grades: the returned nextReview is
\* now + interval * 86,400,000 ms for the new interval (the sum and the
\* product as the doubles of the source give them), and is after now.
C7_NextReviewAfterNow ==
    Returned =>
        /\ last.value.nextReview = NextReviewLong(last.value.interval, now)
        /\ DAY * MS_PER_MINUTE = 86400000
        /\ NumLess(NumberOf(now * MS_PER_MINUTE), last.value.nextReview)

\* C8 over any number of grades: in every stored or returned record
\* interval >= 1 whenever repetitions >= 1, and no record with interval 0 is
\* written.
C8_IntervalNeverZero ==
    /\ \A id \in StoredIds :
            /\ StoredRecord(id).interval # Zero
            /\ StoredRecord(id).repetitions >= 1 =>
                    ~NumLess(ToNumber(StoredRecord(id).interval), NumberOf(1))
    /\ Returned =>
            /\ last.value.interval # Zero
            /\ last.value.repetitions >= 1 =>
                    ~NumLess(last.value.interval, NumberOf(1))

====
